---- MODULE Spec2Model ----
(***************************************************************************)
(* Model of the document analysis pipeline of PlotResearch                 *)
(* (src/analyzer.py, src/config.py, src/app.py).                           *)
(*                                                                         *)
(* A Python str is a TLA+ string; characters are read with SubSeq.  A      *)
(* Python value that a handler returns is tagged with its Python type      *)
(* (PyDict, PyList, PyStr), so that values of different types can be       *)
(* compared.  A handler is an operator that yields an outcome record:      *)
(* the exception that escaped it ("" when it returned), the returned       *)
(* value, the methods it entered (trace) and the number of requests it     *)
(* sent to the external generation service (api_calls).                    *)
(***************************************************************************)
EXTENDS Integers, Sequences, FiniteSets, TLC

VARIABLES
    Config,       \* config.Config: AI_PROVIDER, GROQ_API_KEY, GEMINI_API_KEY
    sdk_ok,       \* whether the provider SDK can construct its client
    ai_provider,  \* DocumentAnalyzer.ai_provider
    model,        \* DocumentAnalyzer.model
    client,       \* DocumentAnalyzer.client ("unset": attribute never assigned)
    phase,        \* "idle": no call in progress, "done": a call has finished
    op,           \* method of the last call
    text,         \* text the last call worked on
    service,      \* what the external service did in the last call
    raised,       \* exception that escaped the last call, "" if it returned
    returned,     \* value the last call returned
    trace,        \* methods the last call entered, in order
    api_calls,    \* requests the last call sent to the external service
    remembered,   \* an earlier call of _analyze_with_rules and its outcome
    folder,       \* the dashboards folder: the files written for each upload id
    uploaded,     \* for each upload id, the analysis its upload ran and its status
    request       \* the /api/chat request the last call served

vars == <<Config, sdk_ok, ai_provider, model, client, phase, op, text, service,
          raised, returned, trace, api_calls, remembered, folder, uploaded,
          request>>

(***************************************************************************)
(* Bounds of the model.                                                    *)
(***************************************************************************)
\* a document is the concatenation of at most MaxPieces pieces
MaxPieces == 2

\* a document of numbers holds at most MaxTokens numbers after its heading
MaxTokens == 37

\* a document of table rows has at most MaxLines lines
MaxLines == 3

\* at most MaxUploads uploads reach the analyzer
MaxUploads == 2

(***************************************************************************)
(* Python values.                                                          *)
(***************************************************************************)
None == [type |-> "NoneType"]

PyDict(d) == [type |-> "dict", d |-> d]

PyList(items) == [type |-> "list", items |-> items]

PyStr(s) == [type |-> "str", s |-> s]

IsDict(v) == v.type = "dict"

HasKey(v, k) == IsDict(v) /\ k \in DOMAIN v.d

Returns(v, tr, n) == [exc |-> "", value |-> v, trace |-> tr, api_calls |-> n]

Raises(e, tr, n) == [exc |-> e, value |-> None, trace |-> tr, api_calls |-> n]

(***************************************************************************)
(* Characters and strings.                                                 *)
(***************************************************************************)
\* the character of s at index i, "" outside the string
At(s, i) == IF i >= 1 /\ i <= Len(s) THEN SubSeq(s, i, i) ELSE ""

RECURSIVE Rep(_, _)
Rep(c, n) == IF n = 0 THEN "" ELSE c \o Rep(c, n - 1)

IsSpace(c) == c \in {" ", "\t", "\n", "\r", "\f"}

IsDigit(c) == c \in {"0", "1", "2", "3", "4", "5", "6", "7", "8", "9"}

UpperCase == <<"A", "B", "C", "D", "E", "F", "G", "H", "I", "J", "K", "L", "M",
               "N", "O", "P", "Q", "R", "S", "T", "U", "V", "W", "X", "Y", "Z">>

LowerCase == <<"a", "b", "c", "d", "e", "f", "g", "h", "i", "j", "k", "l", "m",
               "n", "o", "p", "q", "r", "s", "t", "u", "v", "w", "x", "y", "z">>

Uppers == {UpperCase[i] : i \in 1..26}

Lowers == {LowerCase[i] : i \in 1..26}

IsUpper(c) == c \in Uppers

IsLower(c) == c \in Lowers

lower_char(c) ==
    IF IsUpper(c) THEN LowerCase[CHOOSE i \in 1..26 : UpperCase[i] = c] ELSE c

RECURSIVE lower(_)
lower(s) == IF s = "" THEN "" ELSE lower_char(At(s, 1)) \o lower(Tail(s))

\* \w of the regular expressions: letters, digits and the underscore
IsWord(c) == IsUpper(c) \/ IsLower(c) \/ IsDigit(c) \/ c = "_"

Min(S) == CHOOSE m \in S : \A n \in S : m <= n

Max(S) == CHOOSE m \in S : \A n \in S : n <= m

\* the least index in lo..hi that satisfies P, hi + 1 if there is none
FirstIndex(P(_), lo, hi) ==
    CHOOSE j \in lo..(hi + 1) :
        (j = hi + 1 \/ P(j)) /\ \A k \in lo..(j - 1) : ~P(k)

\* the greatest index in lo..hi that satisfies P, lo - 1 if there is none
LastIndex(P(_), lo, hi) ==
    CHOOSE j \in (lo - 1)..hi :
        (j = lo - 1 \/ P(j)) /\ \A k \in (j + 1)..hi : ~P(k)

lstrip(s) ==
    SubSeq(s, FirstIndex(LAMBDA i : ~IsSpace(At(s, i)), 1, Len(s)), Len(s))

rstrip(s) ==
    SubSeq(s, 1, LastIndex(LAMBDA i : ~IsSpace(At(s, i)), 1, Len(s)))

\* str.strip(): the text without its leading and trailing whitespace
strip(s) == rstrip(lstrip(s))

\* whether lit occurs in s at index i
OccursAt(s, i, lit) ==
    /\ i >= 1
    /\ i + Len(lit) - 1 <= Len(s)
    /\ SubSeq(s, i, i + Len(lit) - 1) = lit

\* a search that ran through lo..hi and stopped at j: 0 when it found nothing
index_or_zero(j, lo, hi) == IF lo > hi \/ j = hi + 1 THEN 0 ELSE j

\* str.find(lit, i): the first index from i on where lit occurs, 0 if none
find(s, lit, i) ==
    index_or_zero(FirstIndex(LAMBDA k : OccursAt(s, k, lit), i, Len(s)), i, Len(s))

\* s[:n]
Prefix(s, n) == SubSeq(s, 1, IF Len(s) < n THEN Len(s) ELSE n)

\* s up to, not including, index stop; all of s when stop is 0
before(s, stop) == IF stop = 0 THEN s ELSE SubSeq(s, 1, stop - 1)

\* text.split('\n')[0]: split never returns an empty list
FirstLine(s) == before(s, find(s, "\n", 1))

Contains(s, lit) == find(s, lit, 1) # 0

StartsWith(s, lit) == OccursAt(s, 1, lit)

EndsWith(s, lit) == OccursAt(s, Len(s) - Len(lit) + 1, lit)

(***************************************************************************)
(* Regular expressions of the analyzer.                                    *)
(***************************************************************************)
\* the class [:\s]
IsHeadingSep(c) == c = ":" \/ IsSpace(c)

\* one alternative of the heading group matches at i (re.IGNORECASE) and is
\* followed by at least one character of [:\s]
HeadingAt(t, i, token) ==
    /\ i + Len(token) <= Len(t)
    /\ lower_char(At(t, i)) = At(token, 1)
    /\ lower(SubSeq(t, i, i + Len(token) - 1)) = token
    /\ IsHeadingSep(At(t, i + Len(token)))

\* the leftmost index where an alternative matches, 0 if none
heading_start(t, tokens) ==
    index_or_zero(FirstIndex(LAMBDA i : \E k \in 1..Len(tokens) : HeadingAt(t, i, tokens[k]),
                             1, Len(t)),
                  1, Len(t))

\* the end of [:\s]+ : the first index from i on outside the class
heading_body(t, i) == FirstIndex(LAMBDA j : ~IsHeadingSep(At(t, j)), i, Len(t))

\* the first alternative that matches at i0
heading_token(t, tokens, i0) ==
    tokens[Min({k \in 1..Len(tokens) : HeadingAt(t, i0, tokens[k])})]

\* (.*?)(?=\n\n|\Z) from index body on, blank being the index of the first
\* blank line from there on, 0 if none
heading_group2(t, body, blank) ==
    SubSeq(t, body, (IF blank = 0 THEN Len(t) + 1 ELSE blank) - 1)

\* the match whose body starts at index body
heading_body_match(t, body) ==
    [matched |-> TRUE, group2 |-> heading_group2(t, body, find(t, "\n\n", body))]

\* the match that starts at index i0, no match when i0 is 0
heading_match(t, tokens, i0) ==
    IF i0 = 0 THEN [matched |-> FALSE, group2 |-> ""]
    ELSE heading_body_match(t, heading_body(t, i0 + Len(heading_token(t, tokens, i0))))

\* re.search(r'(tokens[1]|tokens[2]|...)[:\s]+(.*?)(?=\n\n|\Z)', t,
\*           re.IGNORECASE | re.DOTALL): the leftmost position where an
\* alternative matches, the first such alternative, [:\s]+ greedy, then the
\* shortest run of any characters that ends before a blank line or at the end
heading_search(t, tokens) == heading_match(t, tokens, heading_start(t, tokens))

ABSTRACT_TOKENS == <<"abstract", "summary", "executive summary">>

\* CONCLUSION_TOKENS without the token the two patterns share
CONCLUSION_TOKENS_without_summary == <<"conclusion", "findings">>

CONCLUSION_TOKENS == <<"conclusion", "summary", "findings">>

\* \b at i: exactly one of the characters before and at i is a word character
IsWordAt(t, i) == i >= 1 /\ i <= Len(t) /\ IsWord(At(t, i))

WordBoundary(t, i) == IsWordAt(t, i - 1) # IsWordAt(t, i)

\* length of the run of digits that starts at i
RECURSIVE DigitRun(_, _)
DigitRun(t, i) ==
    IF i >= 1 /\ i <= Len(t) /\ IsDigit(At(t, i)) THEN 1 + DigitRun(t, i + 1) ELSE 0

\* \b\d+\.?\d*\b matched at i: the end (exclusive) of the match the
\* backtracking engine finds first (each quantifier greedy, in order), 0 if
\* there is none
number_end(t, i) ==
    LET Shapes == UNION {{[k1 |-> p[1], dot |-> p[2], k2 |-> b] :
                             b \in 0..DigitRun(t, i + p[1] + p[2])} :
                         p \in (1..DigitRun(t, i)) \X (0..1)}
        Tries  == {c \in Shapes :
                     /\ c.dot = 1 => At(t, i + c.k1) = "."
                     /\ WordBoundary(t, i + c.k1 + c.dot + c.k2)}
        B      == Len(t) + 1
        Rank(c) == (c.k1 * 2 + c.dot) * B + c.k2
    IN  IF ~(WordBoundary(t, i) /\ IsWordAt(t, i) /\ IsDigit(At(t, i))) \/ Tries = {}
        THEN 0
        ELSE LET best == CHOOSE c \in Tries : \A d \in Tries : Rank(d) <= Rank(c)
             IN  i + best.k1 + best.dot + best.k2

\* the leftmost index from i on where the number pattern matches, 0 if none
number_start(t, i) ==
    index_or_zero(FirstIndex(LAMBDA k : IsDigit(At(t, k)) /\ number_end(t, k) # 0,
                             i, Len(t)),
                  i, Len(t))

\* re.findall(r'\b\d+\.?\d*\b', t) from index pos on: the non-overlapping
\* matches, leftmost first
RECURSIVE numbers_from(_, _)
\* the match that starts at index i and the matches after it; none when i is 0
numbers_at(t, i) ==
    IF i = 0 THEN <<>>
    ELSE <<SubSeq(t, i, number_end(t, i) - 1)>> \o numbers_from(t, number_end(t, i))

numbers_from(t, pos) == numbers_at(t, number_start(t, pos))

findall_numbers(t) == numbers_from(t, 1)

(***************************************************************************)
(* float(): the value of a numeric literal, as a decimal with the trailing *)
(* zeros of its fraction removed: mant * 10^(-frac).                       *)
(***************************************************************************)
DigitValue(c) == CHOOSE v \in 0..9 : At("0123456789", v + 1) = c

RECURSIVE digits_value(_)
digits_value(s) ==
    IF s = "" THEN 0
    ELSE digits_value(SubSeq(s, 1, Len(s) - 1)) * 10 + DigitValue(At(s, Len(s)))

RECURSIVE normalize(_, _)
normalize(mant, frac) ==
    IF frac > 0 /\ mant % 10 = 0 THEN normalize(mant \div 10, frac - 1)
    ELSE [mant |-> mant, frac |-> frac]

IsFloatLiteral(s) ==
    LET Dots == {i \in 1..Len(s) : At(s, i) = "."}
    IN  /\ \A i \in 1..Len(s) : IsDigit(At(s, i)) \/ At(s, i) = "."
        /\ Cardinality(Dots) <= 1
        /\ \E i \in 1..Len(s) : IsDigit(At(s, i))

float(s) ==
    LET Dots == {i \in 1..Len(s) : At(s, i) = "."}
    IN  IF Dots = {} THEN normalize(digits_value(s), 0)
        ELSE LET d == Min(Dots)
             IN  normalize(digits_value(SubSeq(s, 1, d - 1) \o SubSeq(s, d + 1, Len(s))),
                           Len(s) - d)

(***************************************************************************)
(* DocumentAnalyzer._generate_error_response and _analyze_with_rules.      *)
(***************************************************************************)
MIN_TEXT_LENGTH == 100

TITLE_LENGTH == 100

CONTENT_LENGTH == 500

MIN_NUMBERS == 3

MAX_NUMBERS == 6

_generate_error_response(error_msg) ==
    PyDict([title       |-> "Analysis Error",
            sections    |-> <<[id           |-> "error",
                               title        |-> "Error",
                               content_html |-> "<p>" \o error_msg \o "</p>",
                               chart        |-> None]>>,
            ui_theme    |-> [primary_color |-> "#ef4444",
                             accent_color  |-> "#dc2626",
                             layout        |-> "single-column"],
            export_html |-> "<section><h2>Error</h2><p>" \o error_msg \o "</p></section>",
            share_ready |-> FALSE])

\* heading_section without the [:500] of lines 445 and 475
heading_section_untruncated(id, title, m) ==
    [id           |-> id,
     title        |-> title,
     content_html |-> "<p>" \o m.group2 \o "</p>",
     chart        |-> None]

\* the section a heading match yields
heading_section(id, title, m) ==
    [id           |-> id,
     title        |-> title,
     content_html |-> "<p>" \o Prefix(m.group2, CONTENT_LENGTH) \o "</p>",
     chart        |-> None]

\* "Metric 1", "Metric 2", ...: str(i + 1) of the f-string
RECURSIVE str(_)
str(n) == IF n < 10 THEN At("0123456789", n + 1)
          ELSE str(n \div 10) \o At("0123456789", (n % 10) + 1)

\* metrics_section without the [:6] of line 452
metrics_section_all_numbers(numbers) ==
    LET chart_data == [i \in 1..Len(numbers) |-> float(numbers[i])]
    IN  [id           |-> "metrics",
         title        |-> "Key Metrics",
         content_html |-> "<p>Numerical data extracted from the document.</p>",
         chart        |-> [type     |-> "bar",
                           labels   |-> [i \in 1..Len(chart_data) |-> "Metric " \o str(i)],
                           datasets |-> <<[label |-> "Values",
                                           data  |-> chart_data,
                                           color |-> "#0ea5e9"]>>]]

metrics_section(numbers) ==
    LET chart_data == [i \in 1..Len(Prefix(numbers, MAX_NUMBERS)) |-> float(numbers[i])]
    IN  [id           |-> "metrics",
         title        |-> "Key Metrics",
         content_html |-> "<p>Numerical data extracted from the document.</p>",
         chart        |-> [type     |-> "bar",
                           labels   |-> [i \in 1..Len(chart_data) |-> "Metric " \o str(i)],
                           datasets |-> <<[label |-> "Values",
                                           data  |-> chart_data,
                                           color |-> "#0ea5e9"]>>]]

\* the loop that merges the sections into export_html
RECURSIVE sections_html(_)
sections_html(sections) ==
    IF sections = <<>> THEN ""
    ELSE "<h2>" \o Head(sections).title \o "</h2>" \o Head(sections).content_html
         \o sections_html(Tail(sections))

\* export_html_of without line 483, which closes the container
export_html_of_unclosed(sections) == "<section>" \o sections_html(sections)

export_html_of(sections) == "<section>" \o sections_html(sections) \o "</section>"

\* rules_dashboard with share_ready set only when a section was detected
rules_dashboard_share_if_sections(title, sections) ==
    PyDict([title       |-> title,
            sections    |-> sections,
            ui_theme    |-> [primary_color |-> "#0ea5e9",
                             accent_color  |-> "#6366f1",
                             layout        |-> "single-column"],
            export_html |-> export_html_of(sections),
            share_ready |-> sections # <<>>])

\* the dict _analyze_with_rules returns
rules_dashboard(title, sections) ==
    PyDict([title       |-> title,
            sections    |-> sections,
            ui_theme    |-> [primary_color |-> "#0ea5e9",
                             accent_color  |-> "#6366f1",
                             layout        |-> "single-column"],
            export_html |-> export_html_of(sections),
            share_ready |-> TRUE])

\* the sections of lines 439-477, in the order the code appends them
sections_of(abstract_match, numbers, conclusion_match) ==
    (IF abstract_match.matched
     THEN <<heading_section("abstract", "Abstract", abstract_match)>> ELSE <<>>)
    \o (IF Len(numbers) >= MIN_NUMBERS THEN <<metrics_section(numbers)>> ELSE <<>>)
    \o (IF conclusion_match.matched
        THEN <<heading_section("conclusion", "Conclusion", conclusion_match)>> ELSE <<>>)

rule_sections(t) ==
    sections_of(heading_search(t, ABSTRACT_TOKENS), findall_numbers(t),
                heading_search(t, CONCLUSION_TOKENS))

\* rules_outcome with a title that depends on the calls made before
rules_outcome_after_calls(t, numbers, sections) ==
    IF /\ Len(numbers) >= MIN_NUMBERS
       /\ \E i \in 1..Len(Prefix(numbers, MAX_NUMBERS)) : ~IsFloatLiteral(numbers[i])
    THEN Raises("ValueError", <<"_analyze_with_rules">>, 0)
    ELSE Returns(rules_dashboard(Prefix(FirstLine(t), TITLE_LENGTH)
                                    \o (IF remembered.called THEN " (again)" ELSE ""),
                                 sections),
                 <<"_analyze_with_rules">>, 0)

\* float() of line 452 raises ValueError on a match it cannot convert;
\* otherwise the dashboard of lines 485-495 is returned
rules_outcome(t, numbers, sections) ==
    IF /\ Len(numbers) >= MIN_NUMBERS
       /\ \E i \in 1..Len(Prefix(numbers, MAX_NUMBERS)) : ~IsFloatLiteral(numbers[i])
    THEN Raises("ValueError", <<"_analyze_with_rules">>, 0)
    ELSE Returns(rules_dashboard(Prefix(FirstLine(t), TITLE_LENGTH), sections),
                 <<"_analyze_with_rules">>, 0)

_analyze_with_rules(t) == rules_outcome(t, findall_numbers(t), rule_sections(t))

(***************************************************************************)
(* DocumentAnalyzer._extract_tabular_data.                                 *)
(***************************************************************************)
MIN_CELLS == 2

MIN_TABLE_ROWS == 2

\* str.split(sep) for a separator of one character
RECURSIVE split(_, _)
split(s, sep) ==
    IF find(s, sep, 1) = 0 THEN <<s>>
    ELSE <<SubSeq(s, 1, find(s, sep, 1) - 1)>>
         \o split(SubSeq(s, find(s, sep, 1) + 1, Len(s)), sep)

\* '|' in line or '\t' in line
has_separator(line) == Contains(line, "|") \/ Contains(line, "\t")

\* [cell.strip() for cell in parts if cell.strip()]
stripped_cells(parts) ==
    SelectSeq([i \in 1..Len(parts) |-> strip(parts[i])], LAMBDA cell : cell # "")

\* lines 541-544: the cells of a line, split at '|' if it holds one, at tabs
\* otherwise
cells_of(line) ==
    stripped_cells(split(line, IF Contains(line, "|") THEN "|" ELSE "\t"))

\* tables_with that keeps a table of a single row
tables_with_single_row(tables, current_table) ==
    IF Len(current_table) >= 1
    THEN Append(tables, [headers |-> Head(current_table), rows |-> Tail(current_table)])
    ELSE tables

\* lines 550-554 and 558-562: the table is kept if it has a header and a row
tables_with(tables, current_table) ==
    IF Len(current_table) >= MIN_TABLE_ROWS
    THEN Append(tables, [headers |-> Head(current_table), rows |-> Tail(current_table)])
    ELSE tables

\* lines 539-555: one turn of the loop over the lines
table_step(line, tables, current_table) ==
    IF has_separator(line)
    THEN [tables        |-> tables,
          current_table |-> IF Len(cells_of(line)) >= MIN_CELLS
                            THEN Append(current_table, cells_of(line))
                            ELSE current_table]
    ELSE IF current_table # <<>>
    THEN [tables |-> tables_with(tables, current_table), current_table |-> <<>>]
    ELSE [tables |-> tables, current_table |-> current_table]

\* the loop of line 537 from the state st on, then lines 557-562
RECURSIVE table_loop(_, _)
table_loop(lines, st) ==
    IF lines = <<>> THEN tables_with(st.tables, st.current_table)
    ELSE table_loop(Tail(lines), table_step(Head(lines), st.tables, st.current_table))

_extract_tabular_data(t) ==
    Returns(PyList(table_loop(split(t, "\n"), [tables |-> <<>>, current_table |-> <<>>])),
            <<"_extract_tabular_data">>, 0)

(***************************************************************************)
(* DocumentAnalyzer._generate_heatmap_data.                                *)
(***************************************************************************)
MIN_HEATMAP_NUMBERS == 9

MAX_HEATMAP_SIZE == 5

\* int(n ** 0.5): the integer part of the square root
int_sqrt(n) == CHOOSE s \in 0..n : s * s <= n /\ (s + 1) * (s + 1) > n

\* np.array(matrix_data).reshape(size, size).tolist(): row-major
reshape(matrix_data, size) ==
    [r \in 1..size |-> [c \in 1..size |-> matrix_data[(r - 1) * size + c]]]

\* f"{word} {i+1}" for i in range(size)
numbered_labels(word, size) == [i \in 1..size |-> word \o " " \o str(i)]

\* heatmap_of without the cap of 5 on the side
heatmap_of_uncapped(numbers, size) ==
    PyDict([type       |-> "heatmap",
            z          |-> reshape([i \in 1..(int_sqrt(Len(numbers)) * int_sqrt(Len(numbers)))
                                       |-> float(numbers[i])],
                                   int_sqrt(Len(numbers))),
            x          |-> numbered_labels("Metric", int_sqrt(Len(numbers))),
            y          |-> numbered_labels("Category", int_sqrt(Len(numbers))),
            colorscale |-> "Viridis"])

\* lines 577-588: the dictionary built from the first size * size numbers
heatmap_of(numbers, size) ==
    PyDict([type       |-> "heatmap",
            z          |-> reshape([i \in 1..(size * size) |-> float(numbers[i])], size),
            x          |-> numbered_labels("Metric", size),
            y          |-> numbered_labels("Category", size),
            colorscale |-> "Viridis"])

\* lines 571-588; the except clause of line 589 turns a number float()
\* cannot convert into None
heatmap_outcome(numbers) ==
    IF Len(numbers) < MIN_HEATMAP_NUMBERS THEN None
    ELSE IF \E i \in 1..Len(numbers) : ~IsFloatLiteral(numbers[i]) THEN None
    ELSE heatmap_of(numbers, Min({MAX_HEATMAP_SIZE, int_sqrt(Len(numbers))}))

_generate_heatmap_data(t) ==
    Returns(heatmap_outcome(findall_numbers(t)), <<"_generate_heatmap_data">>, 0)

(***************************************************************************)
(* DocumentAnalyzer.__init__: the backend selection.                       *)
(***************************************************************************)
\* an attribute that was never assigned: reading it raises AttributeError
Unset == [type |-> "unset"]

GroqClient == [type |-> "Groq"]

GenerativeModel == [type |-> "GenerativeModel"]

\* truth value of a Python value: None and the empty str are false
Truthy(v) == v # None /\ v # PyStr("")

\* __init__ with self.model assigned before the Groq client is constructed
init_model_before_client(cfg, ok) ==
    LET self0 == [ai_provider |-> cfg.AI_PROVIDER, model |-> None,
                  client |-> Unset, exc |-> ""]
    IN  IF cfg.AI_PROVIDER = "groq"
        THEN IF cfg.GROQ_API_KEY # ""
             THEN IF ok
                  THEN [self0 EXCEPT !.client = GroqClient, !.model = PyStr("groq")]
                  ELSE [self0 EXCEPT !.model = PyStr("groq")]
             ELSE self0
        ELSE IF cfg.AI_PROVIDER = "gemini" /\ cfg.GEMINI_API_KEY # ""
             THEN IF ok THEN [self0 EXCEPT !.model = GenerativeModel] ELSE self0
             ELSE self0

\* ok: whether the provider's SDK imports and constructs its client; a
\* failure is caught by the except clauses of __init__
__init__(cfg, ok) ==
    LET self0 == [ai_provider |-> cfg.AI_PROVIDER, model |-> None,
                  client |-> Unset, exc |-> ""]
    IN  IF cfg.AI_PROVIDER = "groq"
        THEN IF cfg.GROQ_API_KEY # ""
             THEN IF ok
                  THEN [self0 EXCEPT !.client = GroqClient, !.model = PyStr("groq")]
                  ELSE self0
             ELSE self0
        ELSE IF cfg.AI_PROVIDER = "gemini" /\ cfg.GEMINI_API_KEY # ""
             THEN IF ok THEN [self0 EXCEPT !.model = GenerativeModel] ELSE self0
             ELSE self0

(***************************************************************************)
(* DocumentAnalyzer.extract_text.  A file is its path, whether it can be   *)
(* opened and parsed (ok), and the text it holds (one page or paragraph).  *)
(***************************************************************************)
\* file_path.lower().split('.')[-1]
extension(file_path) ==
    LET Dots == {i \in 1..Len(file_path) : At(file_path, i) = "."}
    IN  IF Dots = {} THEN lower(file_path)
        ELSE lower(SubSeq(file_path, Max(Dots) + 1, Len(file_path)))

extract_text(file) ==
    LET ext == extension(file.path)
    IN  IF ext = "txt"
        THEN IF file.ok THEN Returns(file.content, <<"extract_text">>, 0)
             ELSE Raises("FileNotFoundError", <<"extract_text">>, 0)
        ELSE IF ext = "pdf"
        THEN IF file.ok THEN Returns(file.content \o "\n", <<"extract_text">>, 0)
             ELSE Returns("Error extracting PDF: " \o file.error, <<"extract_text">>, 0)
        ELSE IF ext \in {"docx", "doc"}
        THEN IF file.ok THEN Returns(file.content, <<"extract_text">>, 0)
             ELSE Returns("Error extracting DOCX: " \o file.error, <<"extract_text">>, 0)
        ELSE Returns("", <<"extract_text">>, 0)

(***************************************************************************)
(* The external generation service and the handling of its responses.      *)
(* A request either raises or yields a reply whose text is a str or None.  *)
(***************************************************************************)
NoRequest == [kind |-> "none"]

ApiRaises(e) == [kind |-> "raise", exc |-> e]

ApiReplies(content) == [kind |-> "reply", content |-> content]

\* the Markdown code fence: three backticks.  A TLA+ string cannot hold a
\* backtick, so the character is written ~ in the modelled replies
FENCE == "~~~"

\* re.sub(r'^<fence>\s*', '', s)
sub_leading(s, fence) ==
    IF StartsWith(s, fence) THEN lstrip(SubSeq(s, Len(fence) + 1, Len(s))) ELSE s

\* re.sub of the trailing fence (optional whitespace, three backticks, end),
\* for s without trailing whitespace
sub_trailing(s) ==
    IF EndsWith(s, FENCE) THEN rstrip(SubSeq(s, 1, Len(s) - Len(FENCE))) ELSE s

\* .strip() followed by the three substitutions that remove a code fence
strip_fences(s, fence) ==
    sub_trailing(sub_leading(sub_leading(strip(s), fence), FENCE))

DASHBOARD_JSON ==
    "{\"title\": \"T\", \"sections\": [], \"ui_theme\": {\"layout\": \"grid\"}, "
    \o "\"export_html\": \"<section></section>\", \"share_ready\": true}"

\* a JSON object that is no Dashboard and carries a text_content key
TEXT_CONTENT_JSON == "{\"text_content\": \"x\"}"

\* json.loads on the documents the service is modelled to send; every other
\* text is not JSON and raises JSONDecodeError (ok = FALSE)
json_loads(s) ==
    CASE s = "[]" -> [ok |-> TRUE, value |-> PyList(<<>>)]
      [] s = "\"ok\"" -> [ok |-> TRUE, value |-> PyStr("ok")]
      [] s = "{\"answer\": 42}" -> [ok |-> TRUE, value |-> PyDict([answer |-> 42])]
      [] s = TEXT_CONTENT_JSON ->
             [ok |-> TRUE, value |-> PyDict([text_content |-> "x"])]
      [] s = DASHBOARD_JSON ->
             [ok |-> TRUE,
              value |-> PyDict([title       |-> "T",
                                sections    |-> <<>>,
                                ui_theme    |-> [layout |-> "grid"],
                                export_html |-> "<section></section>",
                                share_ready |-> TRUE])]
      [] OTHER -> [ok |-> FALSE, value |-> None]

\* fallback_to_rules on the prefix of the text that was sent in the prompt
fallback_to_rules_truncated(t, name, n) ==
    [_analyze_with_rules(Prefix(t, MIN_TEXT_LENGTH))
        EXCEPT !.trace = <<name>> \o @, !.api_calls = n]

\* the except clause of an AI-backed path: the rule-based analysis of the
\* same text, after n requests to the service
fallback_to_rules(t, name, n) ==
    [_analyze_with_rules(t) EXCEPT !.trace = <<name>> \o @, !.api_calls = n]

(***************************************************************************)
(* The analysis and chat methods.  self is the analyzer's fields; api is   *)
(* what the external service does when the method sends its request.       *)
(***************************************************************************)
_analyze_with_groq(self, t, api) ==
    IF self.client = Unset \/ api.kind # "reply" \/ api.content = None
    THEN fallback_to_rules(t, "_analyze_with_groq",
                           IF self.client = Unset THEN 0 ELSE 1)
    ELSE Returns(PyDict([html_content   |-> strip_fences(api.content.s, FENCE \o "html"),
                         is_custom_html |-> TRUE,
                         text_content   |-> t]),
                 <<"_analyze_with_groq">>, 1)

\* lines 412-421: the reply without its code fences, parsed
dashboard_data(api) == json_loads(strip_fences(api.content.s, FENCE \o "json"))

\* any exception of the try block, a reply that does not parse included,
\* reaches the except clause
_analyze_with_gemini(self, t, api) ==
    IF \/ self.model = None
       \/ api.kind # "reply"
       \/ api.content = None
       \/ ~dashboard_data(api).ok
    THEN fallback_to_rules(t, "_analyze_with_gemini",
                           IF self.model = None THEN 0 ELSE 1)
    ELSE Returns(dashboard_data(api).value, <<"_analyze_with_gemini">>, 1)

\* too_short without the length test
too_short_only_empty(t) == t = ""

\* too_short with <= in place of <
too_short_or_equal(t) == t = "" \/ Len(strip(t)) <= MIN_TEXT_LENGTH

\* the test of line 93: not text or len(text.strip()) < 100
too_short(t) == t = "" \/ Len(strip(t)) < MIN_TEXT_LENGTH

\* the strategy analyze_document dispatches a sufficient text to
selected_backend(self) ==
    IF Truthy(self.model) /\ self.ai_provider = "groq" THEN "_analyze_with_groq"
    ELSE IF Truthy(self.model) /\ self.ai_provider = "gemini" THEN "_analyze_with_gemini"
    ELSE "_analyze_with_rules"

\* lines 97-104: the strategy chosen by the configured model and provider
analyze_text(self, t, api) ==
    IF selected_backend(self) = "_analyze_with_groq" THEN _analyze_with_groq(self, t, api)
    ELSE IF selected_backend(self) = "_analyze_with_gemini"
         THEN _analyze_with_gemini(self, t, api)
         ELSE _analyze_with_rules(t)

\* lines 93-104, extracted being the outcome of extract_text
analyze_extracted(self, extracted, api) ==
    IF extracted.exc # "" THEN extracted
    ELSE IF too_short(extracted.value)
    THEN Returns(_generate_error_response("Document too short or empty"),
                 <<"extract_text", "_generate_error_response">>, 0)
    ELSE [analyze_text(self, extracted.value, api) EXCEPT !.trace = <<"extract_text">> \o @]

analyze_document(self, file, api) == analyze_extracted(self, extract_text(file), api)

chat_with_document(self, t, question, api) ==
    IF self.client = Unset
    THEN Raises("AttributeError", <<"chat_with_document">>, 0)
    ELSE IF ~Truthy(self.client)
    THEN Returns(PyStr("AI Chat not available (Groq API key missing)."),
                 <<"chat_with_document">>, 0)
    ELSE IF api.kind # "reply"
    THEN Returns(PyStr("Error generating answer: " \o api.exc),
                 <<"chat_with_document">>, 1)
    ELSE IF api.content = None
    THEN Returns(PyStr("Error generating answer: 'NoneType' object has no attribute 'strip'"),
                 <<"chat_with_document">>, 1)
    ELSE Returns(PyStr(strip(api.content.s)), <<"chat_with_document">>, 1)

(***************************************************************************)
(* app.py: the /upload and /api/chat handlers.  The dashboards folder      *)
(* holds, for each upload id, the files {id}.txt, {id}.html and {id}.json; *)
(* None stands for a file that does not exist.                             *)
(***************************************************************************)
\* config.Config.ALLOWED_EXTENSIONS
ALLOWED_EXTENSIONS == {"txt", "pdf", "docx", "doc"}

allowed_file(filename) ==
    Contains(filename, ".") /\ extension(filename) \in ALLOWED_EXTENSIONS

\* the chat widget of lines 69-140, as the element it adds to the page
CHAT_WIDGET == "<div id=\"chat-widget\"></div>"

\* s[i:].replace(old, new)
RECURSIVE replace_from(_, _, _, _)
replace_from(s, old, new, i) ==
    IF find(s, old, i) = 0 THEN SubSeq(s, i, Len(s))
    ELSE SubSeq(s, i, find(s, old, i) - 1) \o new
         \o replace_from(s, old, new, find(s, old, i) + Len(old))

\* lines 142-146: the widget goes before </body>, or at the end of the page
with_chat_widget(html_content) ==
    IF Contains(html_content, "</body>")
    THEN replace_from(html_content, "</body>", CHAT_WIDGET \o "</body>", 1)
    ELSE html_content \o CHAT_WIDGET

\* jsonify(body), status
Response(status, body) == [type |-> "Response", status |-> status, json |-> body]

\* no file of an upload id exists
NoFiles == [txt |-> None, html |-> None, json |-> None]

\* what a request did: its response, the files of the upload id it drew (no
\* entry when it drew none) and the outcome of the analyzer call it made
\* (a call that entered nothing when it made none)
Handled(response, files, call) ==
    [response |-> response, files |-> files, call |-> call]

\* the Python test 'text_content' in dashboard_data: a key of a dict, an
\* item of a list, a substring of a str
has_text_content(data) ==
    IF data.type = "dict" THEN "text_content" \in DOMAIN data.d
    ELSE IF data.type = "list"
    THEN \E i \in DOMAIN data.items : data.items[i] = PyStr("text_content")
    ELSE Contains(data.s, "text_content")

\* dashboard_data.get('is_custom_html') of a dict
is_custom_html(data) ==
    "is_custom_html" \in DOMAIN data.d /\ data.d.is_custom_html = TRUE

\* lines 61-64: {id}.txt after the test on text_content
text_file(data) ==
    IF has_text_content(data) THEN PyStr(data.d.text_content) ELSE None

\* lines 168-169, the exception standing for its message
analysis_failed(e) == Response(500, [error |-> "Analysis failed: " \o e])

\* lines 161-166
upload_succeeded(id, custom) ==
    Response(200, [success |-> TRUE, dashboard_id |-> id,
                   is_custom_html |-> custom, redirect |-> <<"dashboard", id>>])

\* lines 60-169 on the value analyze_document returned.  A value that is
\* no dict has no get (AttributeError); when the test on text_content
\* passes for it, open() has created {id}.txt before the subscript raises
save_dashboard(data, id, call) ==
    IF data.type # "dict"
    THEN IF has_text_content(data)
         THEN Handled(analysis_failed("TypeError"),
                      <<[NoFiles EXCEPT !.txt = PyStr("")]>>, call)
         ELSE Handled(analysis_failed("AttributeError"), <<NoFiles>>, call)
    ELSE IF is_custom_html(data)
    THEN IF "html_content" \notin DOMAIN data.d
         THEN Handled(analysis_failed("KeyError"),
                      <<[NoFiles EXCEPT !.txt = text_file(data)]>>, call)
         ELSE Handled(upload_succeeded(id, TRUE),
                      <<[txt  |-> text_file(data),
                         html |-> PyStr(with_chat_widget(data.d.html_content)),
                         json |-> None]>>, call)
    ELSE Handled(upload_succeeded(id, FALSE),
                 <<[txt |-> text_file(data), html |-> None, json |-> data]>>, call)

\* lines 46-169: the try block, r being the outcome of analyze_document
analysed(r, id) ==
    IF r.exc # "" THEN Handled(analysis_failed(r.exc), <<NoFiles>>, r)
    ELSE save_dashboard(r.value, id, r)

\* a rejected request
bad_request(status, error) ==
    Handled(Response(status, [error |-> error]), <<>>, Returns(None, <<>>, 0))

\* request.files holds no file or one; id is the uuid the handler draws
upload_file(self, files, api, id) ==
    IF files = <<>> THEN bad_request(400, "No file provided")
    ELSE IF files[1].path = "" THEN bad_request(400, "No file selected")
    ELSE IF ~allowed_file(files[1].path)
    THEN bad_request(400, "Invalid file type. Allowed: PDF, DOCX, TXT")
    ELSE analysed(analyze_document(self, files[1], api), id)

\* lines 190-191; an exception of chat_with_document escapes the handler
chat_answer(r) ==
    IF r.exc # ""
    THEN Handled(Response(500, [error |-> "Internal Server Error"]), <<>>, r)
    ELSE Handled(Response(200, [response |-> r.value.s]), <<>>, r)

\* os.path.exists of {dashboard_id}.txt in the dashboards folder
text_exists(dir, dashboard_id) ==
    dashboard_id \in DOMAIN dir /\ dir[dashboard_id].txt # None

\* dashboard_id 0 and message "" stand for a missing or empty field
chat_api(self, req, api, dir) ==
    IF req.dashboard_id = 0 \/ req.message = ""
    THEN bad_request(400, "Missing data")
    ELSE IF ~text_exists(dir, req.dashboard_id)
    THEN bad_request(404, "Document context not found")
    ELSE chat_answer(chat_with_document(self, dir[req.dashboard_id].txt.s,
                                        req.message, api))

(***************************************************************************)
(* Inputs: configurations, documents, files and service behaviours.        *)
(***************************************************************************)
Providers == {"groq", "gemini", "openai"}

\* the credential of a provider that is not selected is never read: it is
\* left empty
Configs ==
    {c \in [AI_PROVIDER : Providers, GROQ_API_KEY : {"", "gsk_key"},
            GEMINI_API_KEY : {"", "AIza_key"}] :
        /\ c.AI_PROVIDER # "groq" => c.GROQ_API_KEY = ""
        /\ c.AI_PROVIDER # "gemini" => c.GEMINI_API_KEY = ""}

\* 99 characters of filler: one more character reaches the minimum length
FILLER == Rep("x", MIN_TEXT_LENGTH - 1)

Pieces == {FILLER, "\n\n", "1", "7 8.5 9 ",
           "Abstract: <script>alert(1)</script>", "Summary: done"}

RECURSIVE TextsUpTo(_)
TextsUpTo(n) ==
    IF n = 0 THEN {""}
    ELSE TextsUpTo(n - 1) \cup {t \o p : t \in TextsUpTo(n - 1), p \in Pieces}

Texts == TextsUpTo(MaxPieces)

\* "1 2 ... n"
RECURSIVE Counting(_)
Counting(n) ==
    IF n = 0 THEN "" ELSE IF n = 1 THEN "1" ELSE Counting(n - 1) \o " " \o str(n)

\* a heading that holds one decimal number and a digit that is no number of
\* its own (v2)
NUMBER_HEADING == "Table 2.50 of v2: "

\* documents of numbers: 0 to MaxTokens whole numbers, and the heading
\* before the counts that sit just below a threshold of the extractors
NumberTexts ==
    {Counting(n) : n \in 0..MaxTokens}
    \cup {NUMBER_HEADING \o Counting(n) : n \in {2, 5, 6, 8}}

\* a passage body longer than the 500 characters a section keeps
LONG_BODY == FILLER \o FILLER \o FILLER \o FILLER \o FILLER \o FILLER

\* documents with an abstract passage: what precedes it, the passage, what
\* follows it
Preambles == {"", "Title line\n\n", "In summary we did X.\n\n", "SUMMARY\n"}

AbstractPassages == {"Abstract: The quick brown fox jumps.", "ABSTRACT\n\n" \o LONG_BODY}

Endings == {"", "\n\nConclusion: fine."}

HeadingTexts == {p \o a \o e : p \in Preambles, a \in AbstractPassages, e \in Endings}

\* the lines of a document of table rows: rows split at '|' and at tabs, a
\* line with a separator and fewer than two cells, lines without a separator
TableLines == {"a|b", " c | d |", "x\ty", "|", "plain"}

RECURSIVE join_lines(_)
join_lines(lines) ==
    IF Len(lines) = 1 THEN lines[1] ELSE Head(lines) \o "\n" \o join_lines(Tail(lines))

TableTexts == {join_lines(ls) : ls \in UNION {[1..n -> TableLines] : n \in 1..MaxLines}}

\* the texts on which a call of the Rule-Based Analyzer is recorded for the
\* comparison with a later call: one text for each combination of sections
RepeatTexts ==
    {"", "7 8.5 9 1", "Summary: done", "1 2 3 4 5 6 7",
     "Title line\n\nAbstract: The quick brown fox jumps.\n\nConclusion: fine."}

\* the texts the Rule-Based Analyzer is called on directly
RuleTexts == Texts \cup NumberTexts \cup HeadingTexts

Paths == {"paper.txt", "PAPER.PDF", "paper.docx", "paper.doc", "paper.md"}

\* a file that can be read and its content, or a file that cannot be read
\* and the message of the exception
Files ==
    [path : Paths, ok : {TRUE}, content : Texts, error : {""}]
    \cup [path : Paths, ok : {FALSE}, content : {""}, error : {"EOF marker not found"}]

HTML_REPLY == "<html><body>ok</body></html>"

GroqReplies ==
    {ApiRaises("APIConnectionError"), ApiReplies(None),
     ApiReplies(PyStr(HTML_REPLY)),
     ApiReplies(PyStr(FENCE \o "html\n" \o HTML_REPLY \o "\n" \o FENCE))}

GeminiReplies ==
    {ApiRaises("ServiceUnavailable"), ApiReplies(None)}
    \cup {ApiReplies(PyStr(s)) :
            s \in {"[]", "\"ok\"", "{\"answer\": 42}", "{\"title\": ",
                   TEXT_CONTENT_JSON,
                   DASHBOARD_JSON, FENCE \o "json\n" \o DASHBOARD_JSON \o "\n" \o FENCE}}

ChatReplies ==
    {ApiRaises("APIConnectionError"), ApiReplies(None), ApiReplies(PyStr(" Yes. \n"))}

Questions == {"What is measured?"}

\* the behaviours of the service a method of this analyzer can meet
AnalysisApis(self) ==
    IF selected_backend(self) = "_analyze_with_groq" THEN GroqReplies
    ELSE IF selected_backend(self) = "_analyze_with_gemini" THEN GeminiReplies
    ELSE {NoRequest}

ChatApis(self) == IF self.client = Unset THEN {NoRequest} ELSE ChatReplies

\* the files a client uploads, a file without a name included: their text
\* is empty, too short or long enough.  The handler has just saved the file
\* it analyses: a .txt can always be opened, a PDF or Word file may still
\* fail to parse
UploadedFiles ==
    {f \in [path : Paths \cup {""}, ok : BOOLEAN,
            content : {"", "Summary: done", FILLER \o "1"},
            error : {"", "EOF marker not found"}] :
        /\ f.ok => f.error = ""
        /\ ~f.ok => f.content = "" /\ f.error # "" /\ extension(f.path) # "txt"}

\* request.files of a POST /upload: no file part, or one file
UploadRequests == {<<>>} \cup {<<f>> : f \in UploadedFiles}

\* the JSON body of a POST /api/chat: an id that was issued, one that never
\* was, or none, with or without a message
ChatRequests(dir) ==
    [dashboard_id : 0..(Len(dir) + 1), message : {""} \cup Questions]

(***************************************************************************)
(* The state machine.                                                      *)
(***************************************************************************)
\* no /api/chat request was served by the last call
NoChatRequest == [dashboard_id |-> 0, message |-> ""]

\* no call has been recorded
NothingRemembered == [called |-> FALSE, text |-> "", raised |-> "", returned |-> None]

Self == [ai_provider |-> ai_provider, model |-> model, client |-> client]

Init ==
    /\ Config \in Configs
    /\ sdk_ok \in BOOLEAN
    /\ LET self == __init__(Config, sdk_ok)
       IN  /\ ai_provider = self.ai_provider
           /\ model = self.model
           /\ client = self.client
           /\ raised = self.exc
    /\ phase = "idle"
    /\ op = "__init__"
    /\ text = ""
    /\ service = NoRequest
    /\ returned = None
    /\ trace = <<"__init__">>
    /\ api_calls = 0
    /\ remembered = NothingRemembered
    /\ folder = <<>>
    /\ uploaded = <<>>
    /\ request = NoChatRequest

\* Finish with a backend that is switched off once a call fell back to the
\* rules
Finish_switching_off(name, t, a, r) ==
    /\ phase' = "done"
    /\ op' = name
    /\ text' = t
    /\ service' = IF r.api_calls = 0 THEN NoRequest ELSE a
    /\ raised' = r.exc
    /\ returned' = r.value
    /\ trace' = r.trace
    /\ api_calls' = r.api_calls
    /\ model' = IF r.api_calls = 1 /\ Len(r.trace) = 3 THEN None ELSE model
    /\ UNCHANGED <<Config, sdk_ok, ai_provider, client, remembered, folder,
                   uploaded, request>>

\* a call ends: its outcome becomes the state
Finish(name, t, a, r) ==
    /\ phase' = "done"
    /\ op' = name
    /\ text' = t
    /\ service' = IF r.api_calls = 0 THEN NoRequest ELSE a
    /\ raised' = r.exc
    /\ returned' = r.value
    /\ trace' = r.trace
    /\ api_calls' = r.api_calls
    /\ UNCHANGED <<Config, sdk_ok, ai_provider, model, client, remembered,
                   folder, uploaded, request>>

\* the text analyze_document works on: what extract_text returned
extracted_text(file) ==
    IF extract_text(file).exc = "" THEN extract_text(file).value ELSE ""

\* a call of extract_text on its own: the str it returns as a Python value
extract_text_call(file) ==
    IF extract_text(file).exc = ""
    THEN Returns(PyStr(extract_text(file).value), <<"extract_text">>, 0)
    ELSE extract_text(file)

ExtractText ==
    /\ phase = "idle"
    /\ \E file \in Files :
          Finish("extract_text", extracted_text(file), NoRequest, extract_text_call(file))

AnalyzeDocument ==
    /\ phase = "idle"
    /\ \E file \in Files, a \in AnalysisApis(Self) :
          Finish("analyze_document", extracted_text(file), a,
                 analyze_document(Self, file, a))

ChatWithDocument ==
    /\ phase = "idle"
    /\ \E t \in Texts, question \in Questions, a \in ChatApis(Self) :
          Finish("chat_with_document", t, a, chat_with_document(Self, t, question, a))

AnalyzeWithRules ==
    /\ phase = "idle"
    /\ \E t \in RuleTexts :
          Finish("_analyze_with_rules", t, NoRequest, _analyze_with_rules(t))

ExtractTabularData ==
    /\ phase = "idle"
    /\ \E t \in TableTexts :
          Finish("_extract_tabular_data", t, NoRequest, _extract_tabular_data(t))

GenerateHeatmapData ==
    /\ phase = "idle"
    /\ \E t \in NumberTexts :
          Finish("_generate_heatmap_data", t, NoRequest, _generate_heatmap_data(t))

\* the caller takes the outcome; the analyzer is ready for the next call
Respond ==
    /\ phase = "done"
    /\ phase' = "idle"
    /\ op' = "__init__"
    /\ text' = ""
    /\ service' = NoRequest
    /\ raised' = ""
    /\ returned' = None
    /\ trace' = <<"__init__">>
    /\ api_calls' = 0
    /\ request' = NoChatRequest
    /\ UNCHANGED <<Config, sdk_ok, ai_provider, model, client, remembered,
                   folder, uploaded>>

Next ==
    \/ ExtractText
    \/ AnalyzeDocument
    \/ ChatWithDocument
    \/ AnalyzeWithRules
    \/ ExtractTabularData
    \/ GenerateHeatmapData
    \/ Respond

Spec == Init /\ [][Next]_vars

\* the finished call of _analyze_with_rules is recorded, to be compared with
\* the calls that follow
Remember ==
    /\ phase = "done"
    /\ op = "_analyze_with_rules"
    /\ text \in RepeatTexts
    /\ remembered' = [called |-> TRUE, text |-> text, raised |-> raised,
                      returned |-> returned]
    /\ remembered' # remembered
    /\ UNCHANGED <<Config, sdk_ok, ai_provider, model, client, phase, op, text,
                   service, raised, returned, trace, api_calls, folder,
                   uploaded, request>>

\* repeated calls of the Rule-Based Analyzer, interleaved with calls of the
\* other methods
RepeatNext ==
    \/ AnalyzeWithRules
    \/ Remember
    \/ ChatWithDocument
    \/ GenerateHeatmapData
    \/ Respond

\* the Rule-Based Analyzer reads no field of the analyzer: one provider is
\* enough, with and without its client
RepeatInit == Init /\ Config.AI_PROVIDER = "groq" /\ Config.GROQ_API_KEY # ""

RepeatSpec == RepeatInit /\ [][RepeatNext]_vars

(***************************************************************************)
(* The web application: uploads and chat requests served by one analyzer   *)
(* (app.py line 18) over one dashboards folder.                            *)
(***************************************************************************)
\* the record of an upload that drew an id: its status and analyzer call
upload_record(out) ==
    IF out.files = <<>> THEN <<>>
    ELSE <<[status |-> out.response.status, call |-> out.call]>>

\* a request ends: its response becomes the state, its files reach the
\* folder; upload_file catches every exception, chat_api catches none
Serve(name, t, a, req, out) ==
    /\ phase' = "done"
    /\ op' = name
    /\ text' = t
    /\ service' = IF out.call.api_calls = 0 THEN NoRequest ELSE a
    /\ raised' = IF name = "chat_api" THEN out.call.exc ELSE ""
    /\ returned' = out.response
    /\ trace' = <<name>> \o out.call.trace
    /\ api_calls' = out.call.api_calls
    /\ folder' = folder \o out.files
    /\ uploaded' = uploaded \o upload_record(out)
    /\ request' = req
    /\ UNCHANGED <<Config, sdk_ok, ai_provider, model, client, remembered>>

\* the text an upload hands to the analyzer
uploaded_text(files) ==
    IF files = <<>> THEN ""
    ELSE IF files[1].path = "" \/ ~allowed_file(files[1].path) THEN ""
    ELSE extracted_text(files[1])

\* the text a chat request reads from the folder
chat_text(req, dir) ==
    IF req.message # "" /\ text_exists(dir, req.dashboard_id)
    THEN dir[req.dashboard_id].txt.s ELSE ""

UploadFile ==
    /\ phase = "idle"
    /\ Len(folder) < MaxUploads
    /\ \E files \in UploadRequests, a \in AnalysisApis(Self) :
          Serve("upload_file", uploaded_text(files), a, NoChatRequest,
                upload_file(Self, files, a, Len(folder) + 1))

ChatApi ==
    /\ phase = "idle"
    /\ \E req \in ChatRequests(folder), a \in ChatApis(Self) :
          Serve("chat_api", chat_text(req, folder), a, req,
                chat_api(Self, req, a, folder))

AppNext ==
    \/ UploadFile
    \/ ChatApi
    \/ Respond

AppSpec == Init /\ [][AppNext]_vars

(***************************************************************************)
(* Shapes of the returned values.                                          *)
(***************************************************************************)
DashboardKeys == {"title", "sections", "ui_theme", "export_html", "share_ready"}

IsDashboard(v) == IsDict(v) /\ DashboardKeys \subseteq DOMAIN v.d

IsHtmlArtifact(v) ==
    IsDict(v) /\ {"html_content", "is_custom_html", "text_content"} \subseteq DOMAIN v.d

IsErrorDashboard(v) ==
    /\ IsDashboard(v)
    /\ v.d.title = "Analysis Error"
    /\ Len(v.d.sections) = 1
    /\ v.d.sections[1].id = "error"
    /\ v.d.sections[1].title = "Error"
    /\ v.d.share_ready = FALSE

Backends == {"_analyze_with_groq", "_analyze_with_gemini", "_analyze_with_rules"}

InTrace(name) == \E i \in 1..Len(trace) : trace[i] = name

AnalyzeDone == phase = "done" /\ op = "analyze_document"

ChatDone == phase = "done" /\ op = "chat_with_document"

RulesDone == phase = "done" /\ op = "_analyze_with_rules"

\* the value the Rule-Based Analyzer returns on a text
RulesValue(t) == _analyze_with_rules(t).value

(***************************************************************************)
(* Claims.                                                                 *)
(***************************************************************************)
\* C1: for every backend configuration, when the extracted text is empty or
\* shorter than 100 characters, analyze_document returns the error Dashboard
\* (title "Analysis Error", exactly one section with id "error" and title
\* "Error", share_ready false) and invokes no backend, AI or rule-based.
C1_ShortTextErrorDashboard ==
    (AnalyzeDone /\ raised = "" /\ Len(text) < MIN_TEXT_LENGTH)
        => /\ IsErrorDashboard(returned)
           /\ \A b \in Backends : ~InTrace(b)
           /\ api_calls = 0

\* a 99-character text handed to an analyzer that selected an AI backend
C1_Witness ==
    /\ AnalyzeDone /\ raised = ""
    /\ Len(text) = MIN_TEXT_LENGTH - 1
    /\ Truthy(model)
    /\ IsErrorDashboard(returned)

\* the replies of the service that end in an exception: the request raises,
\* the reply carries no text, or the reply is not JSON
FailedReplies ==
    {ApiRaises("APIConnectionError"), ApiRaises("ServiceUnavailable"),
     ApiReplies(None), ApiReplies(PyStr("{\"title\": "))}

\* C2: an exception during the external call or the response handling of
\* either AI-backed path makes analyze_document return exactly what
\* _analyze_with_rules returns on the same full text, after a single request
\* (no retry).
C2_FailureFallsBackToRules ==
    (AnalyzeDone /\ service \in FailedReplies)
        => /\ raised = ""
           /\ returned = RulesValue(text)
           /\ api_calls = 1

\* the Groq request raised on a text in which the rules find a section
C2_Witness ==
    /\ AnalyzeDone
    /\ ai_provider = "groq"
    /\ service = ApiRaises("APIConnectionError")
    /\ Len(text) > MIN_TEXT_LENGTH
    /\ IsDashboard(returned)
    /\ returned.d.sections # <<>>

\* C3: analyze_document and chat_with_document never raise: every call
\* returns a Dashboard, an HTML artifact or a string.
C3_NeverRaises ==
    (AnalyzeDone \/ ChatDone)
        => /\ raised = ""
           /\ IsDashboard(returned) \/ IsHtmlArtifact(returned) \/ returned.type = "str"

NoClientConfigured ==
    ~(Config.AI_PROVIDER = "groq" /\ Config.GROQ_API_KEY # "" /\ sdk_ok)

\* C4: when no client was configured at construction (Groq key missing, Groq
\* client construction failed, or the provider is not groq),
\* chat_with_document returns the fixed "not available" message.
C4_ChatNotAvailableMessage ==
    (ChatDone /\ NoClientConfigured)
        => /\ raised = ""
           /\ returned = PyStr("AI Chat not available (Groq API key missing).")

BackendUnavailable ==
    \/ Config.AI_PROVIDER = "groq" /\ (Config.GROQ_API_KEY = "" \/ ~sdk_ok)
    \/ Config.AI_PROVIDER = "gemini" /\ (Config.GEMINI_API_KEY = "" \/ ~sdk_ok)

\* C5: construction never fails; when the selected provider's credential is
\* missing or its client cannot be constructed, no AI backend is selected and
\* every analyze_document call on a sufficient text returns exactly the
\* Rule-Based Analyzer's output without a request to the external service.
C5_UnavailableBackendMeansRules ==
    /\ op = "__init__" => raised = ""
    /\ BackendUnavailable
         => /\ model = None
            /\ (AnalyzeDone /\ raised = "" /\ Len(strip(text)) >= MIN_TEXT_LENGTH)
                  => /\ returned = RulesValue(text)
                     /\ trace = <<"extract_text", "_analyze_with_rules">>
                     /\ api_calls = 0

\* the Groq key is set but the client could not be constructed
C5_Witness ==
    /\ AnalyzeDone /\ raised = ""
    /\ Config.AI_PROVIDER = "groq" /\ Config.GROQ_API_KEY # "" /\ ~sdk_ok
    /\ Len(strip(text)) >= MIN_TEXT_LENGTH
    /\ IsDashboard(returned) /\ returned.d.share_ready

\* the backend the analyzer selected at construction
SelectedBackend ==
    IF model # None /\ ai_provider = "groq" THEN "_analyze_with_groq"
    ELSE IF model # None /\ ai_provider = "gemini" THEN "_analyze_with_gemini"
    ELSE "_analyze_with_rules"

C7_RulesTotal ==
    (RulesDone /\ Len(text) >= MIN_TEXT_LENGTH)
        => /\ raised = ""
           /\ IsDict(returned)
           /\ DOMAIN returned.d = DashboardKeys
           /\ StartsWith(returned.d.export_html, "<section>")
           /\ EndsWith(returned.d.export_html, "</section>")
           /\ returned.d.share_ready = TRUE

\* a text of at least 100 characters in which no heuristic fires
C7_Witness ==
    /\ RulesDone /\ raised = ""
    /\ Len(text) >= MIN_TEXT_LENGTH
    /\ IsDashboard(returned)
    /\ returned.d.sections = <<>>
    /\ returned.d.share_ready

\* C8: whatever the backend and the outcome of the external call, the value
\* analyze_document returns has the keys title, sections, ui_theme (with
\* layout) and share_ready, and every section has a title.
C8_ResultHasDashboardShape ==
    (AnalyzeDone /\ raised = "")
        => /\ IsDict(returned)
           /\ {"title", "sections", "ui_theme", "share_ready"} \subseteq DOMAIN returned.d
           /\ "layout" \in DOMAIN returned.d.ui_theme
           /\ \A i \in 1..Len(returned.d.sections) :
                 "title" \in DOMAIN returned.d.sections[i]

\* replies of the structured-JSON service that are malformed JSON or JSON of
\* an unexpected shape
BadShapeReplies ==
    {ApiReplies(PyStr("{\"title\": ")), ApiReplies(PyStr("[]")),
     ApiReplies(PyStr("\"ok\"")), ApiReplies(PyStr("{\"answer\": 42}"))}

\* C9: in the gemini path a response that is malformed JSON, or that parses
\* but is not a Dashboard object, makes analyze_document return the
\* Rule-Based Analyzer's output for the same text.
C9_BadShapeFallsBackToRules ==
    (AnalyzeDone /\ ai_provider = "gemini" /\ service \in BadShapeReplies)
        => raised = "" /\ returned = RulesValue(text)

\* C10: the export_html and every content_html of the Dashboard the
\* Rule-Based Analyzer produces hold no script tag, whatever the text.
C10_NoScriptInRulesHtml ==
    (RulesDone /\ raised = "")
        => /\ ~Contains(returned.d.export_html, "<script")
           /\ \A i \in 1..Len(returned.d.sections) :
                 ~Contains(returned.d.sections[i].content_html, "<script")

\* the positions of the sections of dashboard v that have the given id
SectionsWithId(v, id) == {i \in 1..Len(v.d.sections) : v.d.sections[i].id = id}

\* C11: the Rule-Based Analyzer emits a section with id "metrics" if and
\* only if the text holds at least 3 numeric tokens; its chart has type
\* "bar", a single dataset labelled "Values" whose data are the first
\* min(6, count) numeric tokens of the text in encounter order, and labels
\* "Metric 1".."Metric N", N being the number of data values.
C11_MetricsFromFirstNumbers ==
    (RulesDone /\ raised = "")
        => LET numbers == findall_numbers(text)
               n       == Min({MAX_NUMBERS, Len(numbers)})
               found   == SectionsWithId(returned, "metrics")
           IN  /\ (found # {}) <=> (Len(numbers) >= MIN_NUMBERS)
               /\ \A i \in found :
                     LET chart == returned.d.sections[i].chart
                     IN  /\ chart.type = "bar"
                         /\ Len(chart.datasets) = 1
                         /\ chart.datasets[1].label = "Values"
                         /\ chart.datasets[1].data = [k \in 1..n |-> float(numbers[k])]
                         /\ chart.labels = [k \in 1..n |-> "Metric " \o str(k)]

\* the seven numbers 1..7: the chart holds the first six
C11_Witness ==
    /\ RulesDone /\ raised = ""
    /\ text = "1 2 3 4 5 6 7"
    /\ Len(returned.d.sections) = 1
    /\ returned.d.sections[1].id = "metrics"
    /\ returned.d.sections[1].chart.datasets[1].data
           = [k \in 1..6 |-> [mant |-> k, frac |-> 0]]
    /\ returned.d.sections[1].chart.labels[6] = "Metric 6"

\* the indices of text where a token of the sequence tokens is a heading
HeadingPositions(tokens) ==
    {i \in 1..Len(text) : \E k \in 1..Len(tokens) : HeadingAt(text, i, tokens[k])}

\* the body of the heading passage that starts at index i of text
PassageBody(tokens, i) == heading_match(text, tokens, i).group2

\* C12 as stated: for every abstract heading passage of the text, wherever
\* it occurs and whatever precedes it, the Rule-Based Analyzer emits a
\* section with id "abstract" whose content_html is a paragraph that holds
\* the body of that passage cut to 500 characters; without a heading token
\* there is no abstract section.
C12_AbstractPassageAnywhere ==
    (RulesDone /\ raised = "")
        => /\ \A i \in HeadingPositions(<<"abstract">>) :
                 \E j \in SectionsWithId(returned, "abstract") :
                    /\ StartsWith(returned.d.sections[j].content_html, "<p>")
                    /\ Contains(returned.d.sections[j].content_html,
                                Prefix(PassageBody(<<"abstract">>, i), CONTENT_LENGTH))
           /\ HeadingPositions(ABSTRACT_TOKENS) = {}
                 => SectionsWithId(returned, "abstract") = {}

\* C12 amended: the Rule-Based Analyzer emits exactly one section with id
\* "abstract" when a heading token (abstract, summary, executive summary;
\* any case; followed by ':' or whitespace) occurs in the text, and none
\* otherwise; its content_html is "<p>" + body + "</p>", body being the
\* first 500 characters of what follows the FIRST such token and its run of
\* ':' and whitespace, up to the next blank line or the end of the text.
C12_AbstractFirstHeading ==
    (RulesDone /\ raised = "")
        => LET found == SectionsWithId(returned, "abstract")
               heads == HeadingPositions(ABSTRACT_TOKENS)
           IN  IF heads = {} THEN found = {}
               ELSE /\ Cardinality(found) = 1
                    /\ \A j \in found :
                          LET body == PassageBody(ABSTRACT_TOKENS, Min(heads))
                          IN  /\ ~Contains(body, "\n\n")
                              /\ returned.d.sections[j].content_html
                                    = "<p>" \o Prefix(body, CONTENT_LENGTH) \o "</p>"
                              /\ Len(returned.d.sections[j].content_html)
                                    <= CONTENT_LENGTH + Len("<p></p>")

\* an abstract passage after a title and before a conclusion
C12_Witness ==
    /\ RulesDone /\ raised = ""
    /\ text = "Title line\n\nAbstract: The quick brown fox jumps.\n\nConclusion: fine."
    /\ returned.d.sections[1].id = "abstract"
    /\ returned.d.sections[1].content_html = "<p>The quick brown fox jumps.</p>"

HeatmapDone == phase = "done" /\ op = "_generate_heatmap_data"

\* the whole numbers 1..n as float() returns them
FloatsUpTo(n) == [k \in 1..n |-> [mant |-> k, frac |-> 0]]

\* C13: the heatmap extractor returns no result when the text has fewer
\* than 9 numeric tokens; with n >= 9 tokens it returns a square matrix z of
\* side s = min(5, floor(sqrt(n))) whose row-major flattening is the first
\* s * s numeric tokens in order of appearance, with x labels
\* "Metric 1".."Metric s" and y labels "Category 1".."Category s".
C13_HeatmapSquareOfFirstNumbers ==
    HeatmapDone
        => LET numbers == findall_numbers(text)
               n       == Len(numbers)
           IN  /\ raised = ""
               /\ n < 9 => returned = None
               /\ n >= 9
                     => /\ IsDict(returned)
                        /\ \E s \in 1..5 :
                              /\ s * s <= n
                              /\ s = 5 \/ (s + 1) * (s + 1) > n
                              /\ Len(returned.d.z) = s
                              /\ \A r \in 1..s :
                                    /\ Len(returned.d.z[r]) = s
                                    /\ \A c \in 1..s :
                                          returned.d.z[r][c]
                                             = float(numbers[(r - 1) * s + c])
                              /\ Len(returned.d.x) = s /\ Len(returned.d.y) = s
                              /\ \A i \in 1..s :
                                    /\ returned.d.x[i] = "Metric " \o str(i)
                                    /\ returned.d.y[i] = "Category " \o str(i)

\* the nine numbers 1..9 give [[1,2,3],[4,5,6],[7,8,9]]
C13_Witness ==
    /\ HeatmapDone
    /\ text = "1 2 3 4 5 6 7 8 9"
    /\ IsDict(returned)
    /\ returned.d.z = <<SubSeq(FloatsUpTo(9), 1, 3), SubSeq(FloatsUpTo(9), 4, 6),
                        SubSeq(FloatsUpTo(9), 7, 9)>>
    /\ returned.d.x = <<"Metric 1", "Metric 2", "Metric 3">>
    /\ returned.d.y = <<"Category 1", "Category 2", "Category 3">>

TabularDone == phase = "done" /\ op = "_extract_tabular_data"

\* the lines of the text of the last call
TextLines == split(text, "\n")

\* the cells of every line that holds a separator, none for the other lines
CellsOfLines(lines) ==
    [i \in 1..Len(lines) |-> IF has_separator(lines[i]) THEN cells_of(lines[i]) ELSE <<>>]

\* the lines that contribute a row: a separator and at least two cells
RowLinesOf(lines, cells) ==
    {i \in 1..Len(lines) : has_separator(lines[i]) /\ Len(cells[i]) >= 2}

RowLines == RowLinesOf(TextLines, CellsOfLines(TextLines))

\* the row lines accumulated together with row line i: no line without a
\* separator lies between them
GroupOf(lines, rows, i) ==
    {j \in rows : \A k \in Min({i, j})..Max({i, j}) : has_separator(lines[k])}

RECURSIVE Ascending(_)
Ascending(S) == IF S = {} THEN <<>> ELSE <<Min(S)>> \o Ascending(S \ {Min(S)})

\* the table a group of row lines makes: its first row is the headers
TableOf(cells, group) ==
    [headers |-> cells[group[1]],
     rows    |-> [m \in 1..(Len(group) - 1) |-> cells[group[m + 1]]]]

\* the first lines of the groups of at least two rows, in input order
TableStarts(lines, rows) ==
    Ascending({i \in rows : /\ i = Min(GroupOf(lines, rows, i))
                            /\ Cardinality(GroupOf(lines, rows, i)) >= 2})

\* the tables of the groups of at least two rows
TablesOfGroups(lines, cells, rows, starts) ==
    [k \in 1..Len(starts) |-> TableOf(cells, Ascending(GroupOf(lines, rows, starts[k])))]

\* C14: the tabular extractor emits a table only when at least 2 rows (each
\* with at least 2 trimmed non-empty cells) were accumulated: the first
\* accumulated row becomes the headers and the remaining rows, in input
\* order, the body rows; a single qualifying line with no follow-up row
\* yields no table, and a table still open at the end of the text is
\* emitted under the same rule.
C14_TablesNeedTwoRows ==
    TabularDone
        => LET lines == TextLines
               cells == CellsOfLines(lines)
               rows  == RowLinesOf(lines, cells)
           IN  /\ raised = ""
               /\ returned.type = "list"
               /\ returned.items
                     = TablesOfGroups(lines, cells, rows, TableStarts(lines, rows))
               /\ \A k \in 1..Len(returned.items) :
                     /\ Len(returned.items[k].rows) >= 1
                     /\ \A m \in 1..Len(returned.items[k].rows) :
                           /\ Len(returned.items[k].rows[m]) >= 2
                           /\ \A c \in 1..Len(returned.items[k].rows[m]) :
                                 /\ returned.items[k].rows[m][c] # ""
                                 /\ strip(returned.items[k].rows[m][c])
                                       = returned.items[k].rows[m][c]
               /\ Cardinality(rows) < 2 => returned.items = <<>>

\* a header and one row; the table is still open at the end of the text
C14_Witness ==
    /\ TabularDone
    /\ text = "a|b\n c | d |"
    /\ returned.items = <<[headers |-> <<"a", "b">>, rows |-> <<<<"c", "d">>>>]>>

\* C19: every line that contributes no row (no '|' and no tab, or a
\* separator but fewer than 2 non-empty cells) closes the accumulation, so
\* the rows of every emitted table come from consecutive lines of the text:
\* row groups separated by such a line are never merged into one table.
C19_TableRowsAreConsecutiveLines ==
    TabularDone
        => \A k \in 1..Len(returned.items) :
              \E i \in RowLines :
                 /\ returned.items[k].headers = cells_of(TextLines[i])
                 /\ \A m \in 1..Len(returned.items[k].rows) :
                       /\ i + m \in RowLines
                       /\ returned.items[k].rows[m] = cells_of(TextLines[i + m])

ExtractDone == phase = "done" /\ op = "extract_text"

\* C15: extract_text lets no exception propagate, whatever the file and its
\* extension: every call returns a str (the text, an error string or the
\* empty string).
C15_ExtractTextNeverRaises ==
    ExtractDone => raised = "" /\ returned.type = "str"

RECURSIVE HeadedUpTo(_, _)
HeadedUpTo(sections, n) ==
    IF n = 0 THEN ""
    ELSE HeadedUpTo(sections, n - 1)
         \o "<h2>" \o sections[n].title \o "</h2>" \o sections[n].content_html

\* the place of a section id in the fixed order of the sections
SectionRank(id) ==
    CASE id = "abstract" -> 1 [] id = "metrics" -> 2 [] id = "conclusion" -> 3
      [] OTHER -> 0

NoHeuristicFires ==
    /\ HeadingPositions(ABSTRACT_TOKENS) = {}
    /\ Len(findall_numbers(text)) < MIN_NUMBERS
    /\ HeadingPositions(CONCLUSION_TOKENS) = {}

\* C17: in every Dashboard of the Rule-Based Analyzer export_html is
\* "<section>", then "<h2>" + title + "</h2>" + content_html for every
\* section in the order of sections, then "</section>"; the sections come in
\* the order abstract, metrics, conclusion, each at most once; when no
\* heuristic fires sections is empty and export_html is "<section></section>".
C17_ExportHtmlJoinsSections ==
    (RulesDone /\ raised = "")
        => /\ returned.d.export_html
                 = "<section>"
                   \o HeadedUpTo(returned.d.sections, Len(returned.d.sections))
                   \o "</section>"
           /\ \A i \in 1..Len(returned.d.sections) :
                 /\ SectionRank(returned.d.sections[i].id) # 0
                 /\ \A j \in (i + 1)..Len(returned.d.sections) :
                       SectionRank(returned.d.sections[i].id)
                          < SectionRank(returned.d.sections[j].id)
           /\ NoHeuristicFires
                 => /\ returned.d.sections = <<>>
                    /\ returned.d.export_html = "<section></section>"

\* a text in which the three heuristics fire
C17_Witness ==
    /\ RulesDone /\ raised = ""
    /\ Len(returned.d.sections) = 3
    /\ returned.d.sections[1].id = "abstract"
    /\ returned.d.sections[2].id = "metrics"
    /\ returned.d.sections[3].id = "conclusion"
    /\ Contains(returned.d.export_html, "</p><h2>Key Metrics</h2><p>")

\* the first heading token of either pattern, in text order, is "summary"
SummaryComesFirst ==
    /\ HeadingPositions(ABSTRACT_TOKENS) \cup HeadingPositions(CONCLUSION_TOKENS) # {}
    /\ HeadingAt(text,
                 Min(HeadingPositions(ABSTRACT_TOKENS)
                        \cup HeadingPositions(CONCLUSION_TOKENS)),
                 "summary")

\* C18: the conclusion heuristic fires independently of the abstract
\* heuristic: when the first heading token of either pattern in the text is
\* "summary", the Dashboard holds an "abstract" section and a "conclusion"
\* section with the same content_html; the duplicate is kept.
C18_SummaryFiresBothHeuristics ==
    (RulesDone /\ raised = "" /\ SummaryComesFirst)
        => /\ SectionsWithId(returned, "abstract") # {}
           /\ SectionsWithId(returned, "conclusion") # {}
           /\ \A a \in SectionsWithId(returned, "abstract") :
                 \A c \in SectionsWithId(returned, "conclusion") :
                    returned.d.sections[a].content_html
                       = returned.d.sections[c].content_html

\* a summary before an abstract passage: both sections hold the summary
C18_Witness ==
    /\ RulesDone /\ raised = ""
    /\ text = "In summary we did X.\n\nAbstract: The quick brown fox jumps."
    /\ Len(returned.d.sections) = 2
    /\ returned.d.sections[1].id = "abstract"
    /\ returned.d.sections[2].id = "conclusion"
    /\ returned.d.sections[1].content_html = "<p>we did X.</p>"
    /\ returned.d.sections[2].content_html = "<p>we did X.</p>"

\* the fields construction gave the analyzer
Constructed == __init__(Config, sdk_ok)

SelectionAsConstructed ==
    /\ ai_provider = Constructed.ai_provider
    /\ model = Constructed.model
    /\ client = Constructed.client

SuccessfulUploads == {id \in DOMAIN uploaded : uploaded[id].status = 200}

\* the analysis of the upload was the Custom-HTML backend's own return: one
\* request was sent and no fallback was taken
CustomHtmlCallSucceeded(id) ==
    uploaded[id].call.trace = <<"extract_text", "_analyze_with_groq">>

\* the result of the upload is a Dashboard JSON: it was stored as {id}.json
ResultIsDashboardJson(id) == folder[id].json # None

\* a chat request that carries a message has been served for this upload
ChatServedFor(id) ==
    /\ phase = "done"
    /\ op = "chat_api"
    /\ request.dashboard_id = id
    /\ request.message # ""

ContextNotFound == Response(404, [error |-> "Document context not found"])

\* C21: after a successful upload {id}.txt exists exactly when the analysis
\* result carries text_content, which is exactly when the Custom-HTML
\* backend call succeeded; exactly one of {id}.html and {id}.json exists;
\* and a chat request with the id of an upload whose result is a Dashboard
\* JSON answers 404 "Document context not found" without entering
\* chat_with_document
C21_ChatContextOnlyAfterCustomHtml ==
    \A id \in SuccessfulUploads :
        /\ (folder[id].txt # None) <=> HasKey(uploaded[id].call.value, "text_content")
        /\ (folder[id].txt # None) <=> CustomHtmlCallSucceeded(id)
        /\ (folder[id].html # None) # (folder[id].json # None)
        /\ ChatServedFor(id) /\ ResultIsDashboardJson(id)
              => /\ returned = ContextNotFound
                 /\ \A i \in DOMAIN trace : trace[i] # "chat_with_document"

====
